---- MODULE Spec2Model ----
(***************************************************************************)
(* pswmeter: the password strength analyzer Psw.                            *)
(*                                                                         *)
(* The scorer (analyze, calcScore, scoreMeaning, calcBasic16, calcComp8,   *)
(* countCmp, checkWordList) is that of src/psw.js; the loader is the       *)
(* constructor that caches the word list in localStorage under             *)
(* "psw_wordlist" with the time stamp "psw_timestamp".                     *)
(*                                                                         *)
(* A text is a JavaScript value: undefined, null or a string, a string     *)
(* being the sequence of its UTF-16 code units (what text.split("") and    *)
(* text.length see).  A character is a one-character TLA+ string.          *)
(* The instance field this.wordlist is whatever the loader assigned to it: *)
(* an array of strings or undefined (data.wordlist of a document that has  *)
(* no such key).  jQuery and XRegExp are libraries: $.unique is taken to   *)
(* remove the duplicates of a sorted array, \p{Lu} and \p{Ll} to be the    *)
(* uppercase and lowercase letters.                                        *)
(***************************************************************************)
EXTENDS Integers, Sequences, FiniteSets, TLC

VARIABLES
  now,          \* Date.now(), in milliseconds since the first page load
  ticks,        \* how many times the clock has advanced (bounds the model)
  hasLS,        \* the result of hasLocalStorage() in this browser
  lsWordlist,   \* localStorage["psw_wordlist"]
  lsTimestamp,  \* localStorage["psw_timestamp"]
  wordlist,     \* this.wordlist of the current Psw instance
  ajax,         \* the $.ajax request of the current instance
  ctor,         \* what the last run of the constructor did
  text,         \* the text handed to the scorer
  call          \* the call the last step made on the instance, and its outcome

vars == <<now, ticks, hasLS, lsWordlist, lsTimestamp, wordlist, ajax, ctor, text, call>>

loaderVars == <<now, ticks, hasLS, lsWordlist, lsTimestamp, wordlist, ajax, ctor>>

----------------------------------------------------------------------------
(* Bounds of the model *)

\* Every string of at most MaxLen characters over Alphabet is an input.
MaxLen == 3

\* Longer inputs, up to MaxLongLen characters, repeat one character.
MaxLongLen == 17

\* scoreMeaning is called with every integer in -NegScores .. MaxScoreArg.
NegScores == 5

MaxScoreArg == 120

\* The clock advances at most MaxTicks times.
MaxTicks == 2

----------------------------------------------------------------------------
(* Characters *)

UpperChars == {"A", "B", "C"}

LowerChars == {"a", "b", "c", "d", "e", "f", "g"}

DigitChars == {"1", "2", "3"}

SymbolChars == {"!", "?", "_"}

\* Characters that none of the four classifiers accepts.
OtherChars == {" "}

\* The characters every short input is built from.
Alphabet == UpperChars \cup {"a"} \cup DigitChars \cup SymbolChars \cup OtherChars

\* The UTF-16 code unit of a character: Array.prototype.sort's default order.
CharCode(c) ==
  CASE c = " " -> 32
    [] c = "!" -> 33
    [] c = "1" -> 49
    [] c = "2" -> 50
    [] c = "3" -> 51
    [] c = "?" -> 63
    [] c = "A" -> 65
    [] c = "B" -> 66
    [] c = "C" -> 67
    [] c = "_" -> 95
    [] c = "a" -> 97
    [] c = "b" -> 98
    [] c = "c" -> 99
    [] c = "d" -> 100
    [] c = "e" -> 101
    [] c = "f" -> 102
    [] c = "g" -> 103

\* String.prototype.toLowerCase on one character.
CharToLowerCase(c) ==
  CASE c = "A" -> "a"
    [] c = "B" -> "b"
    [] c = "C" -> "c"
    [] OTHER -> c

\* String.prototype.toLowerCase.
toLowerCase(s) == [i \in 1..Len(s) |-> CharToLowerCase(s[i])]

isUpper(c) == c \in UpperChars

isLower(c) == c \in LowerChars

isDigit(c) == c \in DigitChars

isSymbol(c) == c \in SymbolChars

\* cmp(txt[index]) for the classifier handed to countCmp.
ApplyCmp(cmp, c) ==
  CASE cmp = "isUpper" -> isUpper(c)
    [] cmp = "isLower" -> isLower(c)
    [] cmp = "isDigit" -> isDigit(c)
    [] cmp = "isSymbol" -> isSymbol(c)

----------------------------------------------------------------------------
(* JavaScript values *)

Undefined == [kind |-> "undefined", chars |-> <<>>]

Null == [kind |-> "null", chars |-> <<>>]

Str(s) == [kind |-> "string", chars |-> s]

\* An array of strings, and the undefined that a missing key reads as.
List(ws) == [list |-> TRUE, items |-> ws]

NoList == [list |-> FALSE, items |-> <<>>]

\* The outcome of a call: a returned number, or a TypeError.
Return(n) == [thrown |-> FALSE, val |-> n]

Throw == [thrown |-> TRUE, val |-> 0]

----------------------------------------------------------------------------
(* The scorer *)

Min(a, b) == IF a <= b THEN a ELSE b

Max(a, b) == IF a >= b THEN a ELSE b

RECURSIVE Insert(_, _)
Insert(c, s) ==
  IF s = <<>> THEN <<c>>
  ELSE IF CharCode(c) <= CharCode(Head(s)) THEN <<c>> \o s
  ELSE <<Head(s)>> \o Insert(c, Tail(s))

\* txt.sort(): ascending code units.
RECURSIVE Sort(_)
Sort(s) == IF s = <<>> THEN <<>> ELSE Insert(Head(s), Sort(Tail(s)))

\* Unique with the duplicates left in: every occurrence is counted.
Unique_KeepDuplicates(s) == s

\* $.unique on a sorted array: one of every run of equal elements is kept.
RECURSIVE Unique(_)
Unique(s) ==
  IF Len(s) <= 1 THEN s
  ELSE IF s[1] = s[2] THEN Unique(Tail(s))
  ELSE <<s[1]>> \o Unique(Tail(s))

countCmp(s, cmp, unique) ==
  LET txt == IF unique THEN Unique(Sort(s)) ELSE s
  IN  Cardinality({index \in 1..Len(txt) : ApplyCmp(cmp, txt[index])})

\* checkWordList with the sense of its result turned round: true if found.
checkWordList_Inverted(s) ==
  IF ~wordlist.list THEN [thrown |-> TRUE, val |-> FALSE]
  ELSE [thrown |-> FALSE,
        val |-> \E i \in 1..Len(wordlist.items) : wordlist.items[i] = toLowerCase(s)]

\* checkWordList without the toLowerCase of the text.
checkWordList_CaseSensitive(s) ==
  IF ~wordlist.list THEN [thrown |-> TRUE, val |-> FALSE]
  ELSE [thrown |-> FALSE,
        val |-> ~(\E i \in 1..Len(wordlist.items) : wordlist.items[i] = s)]

\* Returns false if found in the word list.  Reads this.wordlist.indexOf:
\* a TypeError when this.wordlist is undefined.
checkWordList(s) ==
  IF ~wordlist.list THEN [thrown |-> TRUE, val |-> FALSE]
  ELSE [thrown |-> FALSE,
        val |-> ~(\E i \in 1..Len(wordlist.items) : wordlist.items[i] = toLowerCase(s))]

unqPoints(num) ==
  (IF num >= 1 THEN 17 ELSE 0) + (IF num >= 2 THEN 8 ELSE 0) + (IF num >= 3 THEN 4 ELSE 0)

\* calcBasic16 with the 4-point rate held for one character too many.
calcBasic16_EightAtFour(t) ==
  IF t.kind # "string" THEN Throw
  ELSE LET len == Len(t.chars)
           score == Min(len, 8) * 4
       IN  Return(IF len > 7 THEN score + (len - 7) * 8 ELSE score)

calcBasic16(t) ==
  IF t.kind # "string" THEN Throw
  ELSE LET len == Len(t.chars)
           score == Min(len, 7) * 4
       IN  Return(IF len > 7 THEN score + (len - 7) * 8 ELSE score)

\* calcComp8 with a floor of 0 under its result.
calcComp8_Floored(t) ==
  IF t.kind # "string" THEN Throw
  ELSE LET len == Len(t.chars)
           upsq == countCmp(t.chars, "isUpper", TRUE)
           digsq == countCmp(t.chars, "isDigit", TRUE)
           symsq == countCmp(t.chars, "isSymbol", TRUE)
           los == countCmp(t.chars, "isLower", FALSE)
           s1 == len * 4 + unqPoints(upsq) + unqPoints(digsq) + unqPoints(symsq)
           s2 == IF los = 0 THEN s1 - 17 ELSE s1
           found == checkWordList(t.chars)
       IN  IF found.thrown THEN Throw
           ELSE Return(Max(0, IF found.val THEN s2 + 17 ELSE s2))

calcComp8(t) ==
  IF t.kind # "string" THEN Throw
  ELSE LET len == Len(t.chars)
           upsq == countCmp(t.chars, "isUpper", TRUE)
           digsq == countCmp(t.chars, "isDigit", TRUE)
           symsq == countCmp(t.chars, "isSymbol", TRUE)
           los == countCmp(t.chars, "isLower", FALSE)
           s1 == len * 4 + unqPoints(upsq) + unqPoints(digsq) + unqPoints(symsq)
           s2 == IF los = 0 THEN s1 - 17 ELSE s1
           found == checkWordList(t.chars)
       IN  IF found.thrown THEN Throw
           ELSE Return(IF found.val THEN s2 + 17 ELSE s2)

\* calcScore taking the smaller of the two metrics.
calcScore_Min(t) ==
  IF t.kind # "string" \/ Len(t.chars) = 0 THEN Return(0)
  ELSE LET b == calcBasic16(t)
           c == calcComp8(t)
       IN  IF b.thrown \/ c.thrown THEN Throw ELSE Return(Min(b.val, c.val))

\* calcScore without the Basic16 metric.
calcScore_Comp8Only(t) ==
  IF t.kind # "string" \/ Len(t.chars) = 0 THEN Return(0)
  ELSE calcComp8(t)

calcScore(t) ==
  IF t.kind # "string" \/ Len(t.chars) = 0 THEN Return(0)
  ELSE LET b == calcBasic16(t)
           c == calcComp8(t)
       IN  IF b.thrown \/ c.thrown THEN Throw ELSE Return(Max(b.val, c.val))

\* scoreMeaning with the first band closed one short: 16 belongs to no band.
scoreMeaning_ShortBand(score) ==
  IF score > 0 /\ score < 16 THEN <<"Dreadful", "#FF0000">>
  ELSE IF score > 16 /\ score <= 33 THEN <<"Bad", "#FF6600">>
  ELSE IF score > 33 /\ score <= 50 THEN <<"Poor", "#FF9900">>
  ELSE IF score > 50 /\ score <= 67 THEN <<"Fair", "#FFCC00">>
  ELSE IF score > 67 /\ score <= 84 THEN <<"Good", "#FFFF00">>
  ELSE IF score > 84 /\ score <= 99 THEN <<"Great", "#CCFF00">>
  ELSE IF score > 99 /\ score <= 115 THEN <<"Excellent", "#99FF00">>
  ELSE IF score > 115 THEN <<"Fantastic", "#00FF00">>
  ELSE <<"", "">>

scoreMeaning(score) ==
  IF score > 0 /\ score <= 16 THEN <<"Dreadful", "#FF0000">>
  ELSE IF score > 16 /\ score <= 33 THEN <<"Bad", "#FF6600">>
  ELSE IF score > 33 /\ score <= 50 THEN <<"Poor", "#FF9900">>
  ELSE IF score > 50 /\ score <= 67 THEN <<"Fair", "#FFCC00">>
  ELSE IF score > 67 /\ score <= 84 THEN <<"Good", "#FFFF00">>
  ELSE IF score > 84 /\ score <= 99 THEN <<"Great", "#CCFF00">>
  ELSE IF score > 99 /\ score <= 115 THEN <<"Excellent", "#99FF00">>
  ELSE IF score > 115 THEN <<"Fantastic", "#00FF00">>
  ELSE <<"", "">>

\* The object analyze builds from the outcome of calcScore: the score with its
\* meaning and color, or the TypeError calcScore has thrown.
Analysis(score) ==
  LET meaning == scoreMeaning(score.val)
  IN  IF score.thrown
      THEN [thrown |-> TRUE, score |-> 0, meaning |-> "", color |-> ""]
      ELSE [thrown |-> FALSE, score |-> score.val,
            meaning |-> meaning[1], color |-> meaning[2]]

analyze(t) == Analysis(calcScore(t))

----------------------------------------------------------------------------
(* Inputs *)

RECURSIVE SeqsUpTo(_)
SeqsUpTo(n) ==
  IF n = 0 THEN {<<>>}
  ELSE LET shorter == SeqsUpTo(n - 1)
       IN  shorter \cup {Append(s, c) : s \in {x \in shorter : Len(x) = n - 1}, c \in Alphabet}

Repeat(c, n) == [i \in 1..n |-> c]

\* The texts the scorer is called with.
Texts ==
  {Undefined, Null}
    \cup {Str(s) : s \in SeqsUpTo(MaxLen)}
    \cup {Str(Repeat(c, n)) : c \in {"a", "1"}, n \in (MaxLen + 1)..MaxLongLen}
    \cup {Str(<<"a", "b", "c", "d", "e", "f", "g">>)}

\* The word lists a response can carry.
WordLists ==
  { List(<<>>),
    List(<< <<"a">>, <<>>, <<" ">>, <<" ", " ", " ">>, <<"a", "a">>, <<"1">>,
            <<"a", "1", "!">>, <<"a", "a", "a", "a", "a">> >>) }

\* The texts typed while the loader runs.
LoaderTexts ==
  {Undefined, Str(<<>>), Str(<<"a">>), Str(<<"A">>), Str(<<" ">>), Str(<<"a", "B">>)}

----------------------------------------------------------------------------
(* JSON documents and localStorage items *)

\* A parsed JSON value: null, or an object and what its key "wordlist" reads as.
JsonObject(wl) == [type |-> "object", wordlist |-> wl]

JsonNull == [type |-> "null", wordlist |-> NoList]

\* A JSON text, by whether it parses and the value it then denotes.
JsonText(v) == [ok |-> TRUE, value |-> v]

Garbage == [ok |-> FALSE, value |-> JsonNull]

JSONstringify(v) == JsonText(v)

\* JSON.parse: the value, or a SyntaxError.
JSONparse(t) == [thrown |-> ~t.ok, value |-> t.value]

Item(v) == [set |-> TRUE, val |-> v]

NoTextItem == [set |-> FALSE, val |-> Garbage]

NoStampItem == [set |-> FALSE, val |-> 0]

\* What the server can answer: jQuery hands the success callback either the
\* parsed document or, for a content type it does not know as JSON, the raw text.
Responses ==
  {[raw |-> r, body |-> JsonText(JsonObject(wl))] : r \in BOOLEAN, wl \in {List(<< <<"a">> >>), NoList}}
    \cup {[raw |-> FALSE, body |-> JsonText(JsonObject(List(<< <<" ">>, <<"a", "b">> >>)))],
          [raw |-> FALSE, body |-> JsonText(JsonNull)],
          [raw |-> TRUE, body |-> Garbage]}

----------------------------------------------------------------------------
(* The clock *)

\* var expiration = 1209600; // 2 weeks in seconds
expiration == 1209600

\* Two weeks in the unit of Date.now(), the millisecond.
TwoWeeksMs == 14 * 24 * 60 * 60 * 1000

TickSteps == {1, expiration - 1, expiration, TwoWeeksMs}

Horizon == TwoWeeksMs + expiration

----------------------------------------------------------------------------
(* The loader *)

NoCall == [op |-> "none", arg |-> 0, thrown |-> FALSE, num |-> 0, meaning |-> "", color |-> ""]

\* wordlistExpired(): NaN >= expiration is false, !undefined is true.
wordlistExpired ==
  IF lsTimestamp.set THEN now - lsTimestamp.val >= expiration ELSE TRUE

\* function Psw(path), run by a page load.
Construct ==
  LET cached == hasLS /\ lsWordlist.set
      age == IF lsTimestamp.set THEN now - lsTimestamp.val ELSE 0
      tmp == JSONparse(lsWordlist.val)
  IN  /\ IF cached /\ ~wordlistExpired
         THEN IF tmp.thrown
              THEN /\ wordlist' = List(<<>>)
                   /\ ctor' = [src |-> "parseError", cached |-> TRUE, age |-> age]
              ELSE /\ wordlist' = tmp.value.wordlist
                   /\ ctor' = [src |-> "cache", cached |-> TRUE, age |-> age]
         ELSE /\ wordlist' = List(<<>>)
              /\ ctor' = [src |-> "ajax", cached |-> cached /\ lsTimestamp.set, age |-> age]
      /\ ajax' = IF cached /\ ~wordlistExpired THEN "none" ELSE "pending"
      /\ call' = NoCall
      /\ UNCHANGED <<now, ticks, hasLS, lsWordlist, lsTimestamp, text>>

\* The "success" callback of $.ajax.
AjaxSuccess ==
  /\ ajax = "pending"
  /\ \E resp \in Responses :
       LET parsed == JSONparse(resp.body)
           data == parsed.value
       IN  /\ ajax' = "done"
           /\ IF (resp.raw /\ parsed.thrown) \/ data.type = "null"
              THEN UNCHANGED <<wordlist, lsWordlist, lsTimestamp>>
              ELSE /\ wordlist' = data.wordlist
                   /\ IF hasLS
                      THEN /\ lsWordlist' = Item(JSONstringify(data))
                           /\ lsTimestamp' = Item(now)
                      ELSE UNCHANGED <<lsWordlist, lsTimestamp>>
  /\ call' = NoCall
  /\ UNCHANGED <<now, ticks, hasLS, ctor, text>>

\* The "error" callback of $.ajax.
AjaxError ==
  /\ ajax = "pending"
  /\ ajax' = "done"
  /\ call' = NoCall
  /\ UNCHANGED <<now, ticks, hasLS, lsWordlist, lsTimestamp, wordlist, ctor, text>>

\* Another script of the origin leaves a value in localStorage["psw_wordlist"]
\* that JSON.parse rejects.
StorageGarbled ==
  /\ hasLS
  /\ lsWordlist.set
  /\ lsWordlist' = Item(Garbage)
  /\ call' = NoCall
  /\ UNCHANGED <<now, ticks, hasLS, lsTimestamp, wordlist, ajax, ctor, text>>

\* Date.now() advances.
Tick ==
  /\ ticks < MaxTicks
  /\ \E d \in TickSteps :
       /\ d <= Horizon - now
       /\ now' = now + d
  /\ ticks' = ticks + 1
  /\ call' = NoCall
  /\ UNCHANGED <<hasLS, lsWordlist, lsTimestamp, wordlist, ajax, ctor, text>>

----------------------------------------------------------------------------
(* Calls on the instance *)

Analyze ==
  /\ LET r == analyze(text)
     IN  call' = [op |-> "analyze", arg |-> 0, thrown |-> r.thrown, num |-> r.score,
                  meaning |-> r.meaning, color |-> r.color]
  /\ UNCHANGED <<loaderVars, text>>

NumCall(op, r) ==
  [op |-> op, arg |-> 0, thrown |-> r.thrown, num |-> r.val, meaning |-> "", color |-> ""]

CalcScore ==
  /\ call' = NumCall("calcScore", calcScore(text))
  /\ UNCHANGED <<loaderVars, text>>

CalcBasic16 ==
  /\ call' = NumCall("calcBasic16", calcBasic16(text))
  /\ UNCHANGED <<loaderVars, text>>

CalcComp8 ==
  /\ call' = NumCall("calcComp8", calcComp8(text))
  /\ UNCHANGED <<loaderVars, text>>

ScoreMeaning ==
  /\ \E score \in (0 - NegScores)..MaxScoreArg :
       LET m == scoreMeaning(score)
       IN  call' = [op |-> "scoreMeaning", arg |-> score, thrown |-> FALSE, num |-> 0,
                    meaning |-> m[1], color |-> m[2]]
  /\ UNCHANGED <<loaderVars, text>>

----------------------------------------------------------------------------
(* Specifications *)

\* A first page load in a browser whose localStorage holds nothing of Psw.
Init ==
  /\ now = 0
  /\ ticks = 0
  /\ hasLS \in BOOLEAN
  /\ lsWordlist = NoTextItem
  /\ lsTimestamp = NoStampItem
  /\ wordlist = List(<<>>)
  /\ ajax = "pending"
  /\ ctor = [src |-> "ajax", cached |-> FALSE, age |-> 0]
  /\ text \in LoaderTexts
  /\ call = NoCall

Next ==
  \/ Construct
  \/ AjaxSuccess
  \/ AjaxError
  \/ StorageGarbled
  \/ Tick
  \/ Analyze
  \/ CalcScore
  \/ CalcComp8

\* The whole program: the loader and the calls made while it runs.
Spec == Init /\ [][Next]_vars

\* An instance whose request has delivered a word list, and any text.
InitScore ==
  /\ now = 0
  /\ ticks = 0
  /\ hasLS = FALSE
  /\ lsWordlist = NoTextItem
  /\ lsTimestamp = NoStampItem
  /\ wordlist \in WordLists
  /\ ajax = "done"
  /\ ctor = [src |-> "ajax", cached |-> FALSE, age |-> 0]
  /\ text \in Texts
  /\ call = NoCall

NextScore ==
  \/ Analyze
  \/ CalcScore
  \/ CalcBasic16
  \/ CalcComp8

\* The scorer as a function of the text and the loaded word list.
SpecScore == InitScore /\ [][NextScore]_vars

InitMeaning ==
  /\ InitScore
  /\ wordlist = List(<<>>)
  /\ text = Str(<<>>)

NextMeaning == ScoreMeaning

\* The label mapper as a function of the score.
SpecMeaning == InitMeaning /\ [][NextMeaning]_vars

----------------------------------------------------------------------------
(* What the properties are stated with *)

IsString(t) == t.kind = "string"

NonEmpty(t) == IsString(t) /\ t.chars # <<>>

\* The distinct characters of s that belong to class.
DistinctIn(s, class) == Cardinality({s[i] : i \in 1..Len(s)} \cap class)

HasLower(s) == \E i \in 1..Len(s) : s[i] \in LowerChars

AllLower(s) == \A i \in 1..Len(s) : s[i] \in LowerChars

Unclassified(s) ==
  \A i \in 1..Len(s) : s[i] \notin (UpperChars \cup LowerChars \cup DigitChars \cup SymbolChars)

\* The lowercased s is a word of the list ws.
Listed(s, ws) == \E i \in 1..Len(ws) : ws[i] = toLowerCase(s)

Staircase(n) == CASE n = 0 -> 0 [] n = 1 -> 17 [] n = 2 -> 25 [] OTHER -> 29

\* The score Comprehensive8 gives s against the word list ws.
Comp8Formula(s, ws) ==
  Len(s) * 4
    + Staircase(DistinctIn(s, UpperChars))
    + Staircase(DistinctIn(s, DigitChars))
    + Staircase(DistinctIn(s, SymbolChars))
    - (IF HasLower(s) THEN 0 ELSE 17)
    + (IF Listed(s, ws) THEN 0 ELSE 17)

Basic16Formula(len) == Min(len, 7) * 4 + Max(0, len - 7) * 8

----------------------------------------------------------------------------
(* Properties *)

\* C1: calcScore(text) returns 0 when text is undefined, null or the empty
\* string; for every other text its outcome is that of
\* Math.max(calcBasic16(text), calcComp8(text)): the larger of the two values
\* and one of them, or the TypeError of calcComp8 when this.wordlist is no
\* array.  Checked in every state of the loader.
C1_CalcScoreIsMax ==
  call.op = "calcScore" =>
    IF ~NonEmpty(text)
    THEN ~call.thrown /\ call.num = 0
    ELSE LET b == Basic16Formula(Len(text.chars))
         IN  IF ~wordlist.list
             THEN call.thrown
             ELSE LET c == Comp8Formula(text.chars, wordlist.items)
                  IN  /\ ~call.thrown
                      /\ call.num >= b
                      /\ call.num >= c
                      /\ call.num \in {b, c}

\* calcScore has returned Comprehensive8, the larger metric, against a loaded list.
C1_Witness ==
  /\ call.op = "calcScore"
  /\ ~call.thrown
  /\ wordlist.list /\ wordlist.items # <<>>
  /\ NonEmpty(text)
  /\ call.num > Basic16Formula(Len(text.chars))

\* C2: for every text and every word list the score analyze returns is a
\* non-negative integer; it is 0 with meaning "" and color "" when the text is
\* undefined (or null) or empty, and every non-empty text gets a score > 0, a
\* non-empty label and a non-empty color.
C2_AnalyzeScore ==
  call.op = "analyze" =>
    /\ ~call.thrown
    /\ call.num \in Nat
    /\ ~NonEmpty(text) => call.num = 0 /\ call.meaning = "" /\ call.color = ""
    /\ NonEmpty(text) => call.num > 0 /\ call.meaning # "" /\ call.color # ""

\* analyze has scored a listed text whose Comprehensive8 value is negative.
C2_Witness ==
  /\ call.op = "analyze"
  /\ NonEmpty(text)
  /\ Comp8Formula(text.chars, wordlist.items) < 0
  /\ call.num > 0
  /\ call.meaning = "Dreadful"

\* The bands of the label mapper: first score, last score, label, color.
Bands ==
  << <<1, 16, "Dreadful", "#FF0000">>,
     <<17, 33, "Bad", "#FF6600">>,
     <<34, 50, "Poor", "#FF9900">>,
     <<51, 67, "Fair", "#FFCC00">>,
     <<68, 84, "Good", "#FFFF00">>,
     <<85, 99, "Great", "#CCFF00">>,
     <<100, 115, "Excellent", "#99FF00">> >>

\* C3: scoreMeaning maps 1..16 to Dreadful, 17..33 to Bad, 34..50 to Poor,
\* 51..67 to Fair, 68..84 to Good, 85..99 to Great, 100..115 to Excellent, 116
\* and above to Fantastic, each with its color, and every score <= 0 to
\* ("", ""); no positive score gets the sentinel.
C3_ScoreMeaningBands ==
  call.op = "scoreMeaning" =>
    /\ \A k \in 1..Len(Bands) :
         (Bands[k][1] <= call.arg /\ call.arg <= Bands[k][2])
           => call.meaning = Bands[k][3] /\ call.color = Bands[k][4]
    /\ call.arg >= 116 => call.meaning = "Fantastic" /\ call.color = "#00FF00"
    /\ call.arg <= 0 => call.meaning = "" /\ call.color = ""
    /\ call.arg > 0 => call.meaning # "" /\ call.color # ""

\* scoreMeaning has mapped the last score of the first band.
C3_Witness ==
  call.op = "scoreMeaning" /\ call.arg = 16 /\ call.meaning = "Dreadful"

\* C4: calcBasic16(text) is min(len,7)*4 + max(0,len-7)*8 for the length len
\* of text, whatever its characters; it is no less than for the text one
\* character shorter, 28 at length 7, 36 at length 8 and 100 at length 16.
C4_Basic16Formula ==
  (call.op = "calcBasic16" /\ IsString(text)) =>
    LET len == Len(text.chars)
    IN  /\ ~call.thrown
        /\ call.num = Basic16Formula(len)
        /\ len > 0 => call.num >= Basic16Formula(len - 1)
        /\ len = 7 => call.num = 28
        /\ len = 8 => call.num = 36
        /\ len = 16 => call.num = 100

\* calcBasic16 has scored a text of 16 characters.
C4_Witness ==
  call.op = "calcBasic16" /\ IsString(text) /\ Len(text.chars) = 16 /\ call.num = 100

\* C5: for every text and word list calcComp8(text) is len*4, plus the
\* staircase points (0, 17, 25, 29 for 0, 1, 2, 3 or more) of the distinct
\* uppercase characters, of the distinct digits and of the distinct symbols,
\* minus 17 when the text has no lowercase character, plus 17 when the
\* lowercased text is not in the word list.
C5_Comp8Formula ==
  (call.op = "calcComp8" /\ IsString(text)) =>
    ~call.thrown /\ call.num = Comp8Formula(text.chars, wordlist.items)

\* calcComp8 has scored a text that repeats an uppercase character.
C5_Witness ==
  /\ call.op = "calcComp8"
  /\ IsString(text)
  /\ Len(text.chars) = 3
  /\ DistinctIn(text.chars, UpperChars) = 1
  /\ \A i \in 1..3 : text.chars[i] \in UpperChars
  /\ call.num = 12 + 17 - 17 + 17

\* A non-empty text of lowercase letters only that is not in the word list.
UnlistedLowercase ==
  /\ NonEmpty(text)
  /\ AllLower(text.chars)
  /\ ~Listed(text.chars, wordlist.items)

\* C6, as the specification states it: for a text of lowercase letters only
\* that is not in the word list calcComp8(text) is len*4, and analyze of such
\* a text of 7 letters gives the score 28 and the meaning "Bad".
C6_Original ==
  /\ (call.op = "calcComp8" /\ UnlistedLowercase) => call.num = Len(text.chars) * 4
  /\ (call.op = "analyze" /\ UnlistedLowercase /\ Len(text.chars) = 7)
       => call.num = 28 /\ call.meaning = "Bad"

\* C6, amended: for a non-empty text of lowercase letters only that is not in
\* the word list calcComp8(text) is len*4 + 17 (no penalty, since the text has
\* lowercase characters, and the bonus of 17); analyze of such a text of 7
\* letters has Basic16 28 and Comprehensive8 45 and gives the score 45 and the
\* meaning "Poor".
C6_LowercaseUnlisted ==
  /\ (call.op = "calcComp8" /\ UnlistedLowercase)
       => ~call.thrown /\ call.num = Len(text.chars) * 4 + 17
  /\ (call.op = "calcBasic16" /\ UnlistedLowercase /\ Len(text.chars) = 7)
       => call.num = 28
  /\ (call.op = "analyze" /\ UnlistedLowercase /\ Len(text.chars) = 7)
       => call.num = 45 /\ call.meaning = "Poor" /\ call.color = "#FF9900"

\* analyze has scored "abcdefg" against a loaded list that does not hold it.
C6_Witness ==
  /\ call.op = "analyze"
  /\ text = Str(<<"a", "b", "c", "d", "e", "f", "g">>)
  /\ wordlist.items # <<>>
  /\ call.num = 45

C8_AnalyzeNeverThrows ==
  (call.op = "analyze" /\ NonEmpty(text)) => ~call.thrown

\* The step in which a request completes and leaves a list in this.wordlist.
ListLoaded ==
  ajax = "pending" /\ ajax' = "done" /\ wordlist.list /\ wordlist'.list /\ IsString(text)

\* C9: when a request completes and leaves a list W in this.wordlist, the
\* list before was empty, and a call made just before the step and the same
\* call made after it differ only by the dictionary bonus, and only downward:
\* calcComp8 before minus calcComp8 after is 17 if the lowercased text is in W
\* and 0 otherwise, calcScore and the score of analyze do not increase, and a
\* text that is not in W gets the same analysis before and after.
C9_LoadOnlyLowers ==
  [][ListLoaded =>
       /\ wordlist.items = <<>>
       /\ call.op = "calcComp8" =>
            call.num - (calcComp8(text).val)'
              = IF Listed(text.chars, wordlist'.items) THEN 17 ELSE 0
       /\ call.op \in {"calcScore", "analyze"} =>
            \A after \in {(calcScore(text))'} :
              /\ ~after.thrown
              /\ after.val <= call.num
              /\ (call.op = "analyze" /\ ~Listed(text.chars, wordlist'.items)) =>
                   Analysis(after) = [thrown |-> FALSE, score |-> call.num,
                                      meaning |-> call.meaning, color |-> call.color]]_vars

\* After the load calcComp8 has scored a text whose lowercased form is in the list.
C9_Witness ==
  /\ ajax = "done"
  /\ wordlist = List(<< <<"a">> >>)
  /\ text = Str(<<"A">>)
  /\ call.op = "calcComp8"
  /\ call.num = 4

\* C10: a construction that finds the word list and its timestamp cached
\* issues no request while less than 2 weeks have passed since the timestamp,
\* and issues one from 2 weeks on or when nothing is cached.
C10_CacheForTwoWeeks ==
  /\ (ctor.cached /\ ctor.age < TwoWeeksMs) => ctor.src # "ajax"
  /\ (ctor.cached /\ ctor.age >= TwoWeeksMs) => ctor.src = "ajax"
  /\ ~ctor.cached => ctor.src = "ajax"

====
